---------------------------- MODULE Spec2Model ----------------------------
(***************************************************************************)
(* TrueNAS auto-update: the update orchestration of src/app.py (dialect    *)
(* detection, REST client, upgrade loop) and of its single-dialect         *)
(* predecessor src/app/main.py.                                            *)
(*                                                                         *)
(* Python values are modelled as follows.  None is the string "None".      *)
(* Texts that the code scans or strips (the version string, the body of    *)
(* the upgrade response) are sequences of one-character strings.  A JSON   *)
(* object is a TLA+ record whose DOMAIN is the set of keys present.        *)
(* A notification is one call of send_notification; the entry records      *)
(* whether the call reached the notifier (APPRISE_URLS configured).        *)
(***************************************************************************)
EXTENDS Integers, Sequences, FiniteSets, TLC

VARIABLES
    prog,                \* which program runs: "app" (src/app.py) or "main" (src/app/main.py)
    BASE_URL,            \* os.getenv("BASE_URL")
    API_KEY,             \* os.getenv("API_KEY")
    APPRISE_URLS,        \* TRUE iff APPRISE_URLS is a non-empty string
    NOTIFY_ON_SUCCESS,   \* the success-notification flag
    FORCE_WEBSOCKET,     \* the dialect-forcing flag
    pc,                  \* position of the run
    probe,               \* the version probe's outcome while the Detector is studied alone
    api_type,            \* "none" | "rest" | "websocket"
    api_client,          \* "none" | "TrueNASRestAPI" | "TrueNASWebSocketAPI"
    releases_to_upgrade, \* the candidates, in list order
    idx,                 \* index (1-based) of the candidate the loop is at
    job_id,              \* the job handle of the candidate being awaited
    update_count,        \* successful upgrades so far
    calls,               \* control-plane requests issued so far, in order
    notifications,       \* send_notification calls so far, in order
    summary,             \* what the final summary line reports
    terminal,            \* "running" or the way the run ended
    result,              \* return value of update_charts: "none" | "True" | "False"
    exit_code,           \* process exit status, -1 while running
    ws,                  \* self.ws: 0 for None, else the socket held
    call_id,             \* self.call_id
    connected,           \* self.connected
    session_id,          \* self.session_id
    ws_pc,               \* position of the session client's caller
    cur,                 \* the call in progress: method, local call_id, frames discarded
    socks,               \* every socket create_connection has returned, in order
    sent,                \* every frame written to a socket, in order
    returns              \* every return of call(), in order

vars == << prog, BASE_URL, API_KEY, APPRISE_URLS, NOTIFY_ON_SUCCESS,
           FORCE_WEBSOCKET, pc, probe, api_type, api_client,
           releases_to_upgrade, idx, job_id, update_count, calls,
           notifications, summary, terminal, result, exit_code,
           ws, call_id, connected, session_id, ws_pc, cur, socks, sent, returns >>

\* the orchestration part of the state
run == << pc, probe, api_type, api_client, releases_to_upgrade, idx, job_id,
          update_count, calls, notifications, summary, terminal, result, exit_code >>

\* the session client object and its sockets
client == << ws, call_id, connected, session_id, ws_pc, cur, socks, sent, returns >>

env == << prog, BASE_URL, API_KEY, APPRISE_URLS, NOTIFY_ON_SUCCESS, FORCE_WEBSOCKET >>

---------------------------------------------------------------------------
(* Bounds and program constants *)

\* longest release list the backend returns
MaxReleases == 2

\* timeout (seconds) of the version probe
ProbeTimeout == 10

\* the version threshold 25.04: integer part and hundredths
ThresholdInt == 25
ThresholdHundredths == 4

None == "None"

\* Python truthiness of a string-or-None value
Truthy(v) == v # None /\ v # ""

---------------------------------------------------------------------------
(* Text helpers *)

Digits == {"0", "1", "2", "3", "4", "5", "6", "7", "8", "9"}

DigitVal(c) ==
    CASE c = "0" -> 0 [] c = "1" -> 1 [] c = "2" -> 2 [] c = "3" -> 3
      [] c = "4" -> 4 [] c = "5" -> 5 [] c = "6" -> 6 [] c = "7" -> 7
      [] c = "8" -> 8 [] c = "9" -> 9

RECURSIVE DecVal(_)
DecVal(ds) ==
    IF ds = << >> THEN 0
    ELSE 10 * DecVal(SubSeq(ds, 1, Len(ds) - 1)) + DigitVal(ds[Len(ds)])

RECURSIVE Pow10(_)
Pow10(n) == IF n = 0 THEN 1 ELSE 10 * Pow10(n - 1)

\* last index of the maximal run of digits that starts at i
RECURSIVE DigitRunEnd(_, _)
DigitRunEnd(s, i) ==
    IF i < Len(s) /\ s[i + 1] \in Digits THEN DigitRunEnd(s, i + 1) ELSE i

\* whether \d+\.\d+ matches starting at position i
MatchAt(s, i) ==
    /\ s[i] \in Digits
    /\ LET j == DigitRunEnd(s, i)
       IN  /\ j + 2 <= Len(s)
           /\ s[j + 1] = "."
           /\ s[j + 2] \in Digits

\* re.search(r'(\d+\.\d+)', s): << >> for no match, else <<[int, frac]>> of
\* the leftmost match (both digit runs greedy)
re_search(s) ==
    IF \E i \in 1..Len(s) : MatchAt(s, i)
    THEN LET i == CHOOSE k \in 1..Len(s) :
                     MatchAt(s, k) /\ \A m \in 1..(k - 1) : ~MatchAt(s, m)
             j == DigitRunEnd(s, i)
             e == DigitRunEnd(s, j + 2)
         IN  << [int |-> SubSeq(s, i, j), frac |-> SubSeq(s, j + 2, e)] >>
    ELSE << >>

\* faulty variant: the comparison is strict
AboveThreshold(m) ==
    LET I == DecVal(m.int)
        F == DecVal(m.frac)
        n == Len(m.frac)
    IN  \/ I > ThresholdInt
        \/ I = ThresholdInt /\ F * 100 > ThresholdHundredths * Pow10(n)

\* float(match.group(1)) >= 25.04, computed exactly on the decimal digits
AtLeastThreshold(m) ==
    LET I == DecVal(m.int)
        F == DecVal(m.frac)
        n == Len(m.frac)
    IN  \/ I > ThresholdInt
        \/ I = ThresholdInt /\ F * 100 >= ThresholdHundredths * Pow10(n)

Whitespace == {" ", "\n", "\t"}

\* str.strip()
RECURSIVE strip(_)
strip(s) ==
    IF s = << >> THEN s
    ELSE IF s[1] \in Whitespace THEN strip(Tail(s))
    ELSE IF s[Len(s)] \in Whitespace THEN strip(SubSeq(s, 1, Len(s) - 1))
    ELSE s

---------------------------------------------------------------------------
(* HTTP answers of the backend *)

Statuses == {200, 201, 500}

\* kind: "silent" (the backend never answers), "exc" (the request raises:
\* connection refused, reset, TLS failure), "http" (a response arrived)
Answer(kind, status, body) == [kind |-> kind, status |-> status, body |-> body]

\* the timeout= argument of each requests call: << >> where none is passed
Timeout(op) == IF op = "probe" THEN << ProbeTimeout >> ELSE << >>

\* what a blocking requests call does when the backend stays silent:
\* with a timeout it raises after the timeout, without one it never returns
Hangs(ans, timeout) == ans.kind = "silent" /\ timeout = << >>
Raises(ans, timeout) == ans.kind = "exc" \/ (ans.kind = "silent" /\ timeout # << >>)

\* an optional return value: None, or a value
RetNone(dflt) == [none |-> TRUE, val |-> dflt]
Ret(v) == [none |-> FALSE, val |-> v]

---------------------------------------------------------------------------
(* Dialect Detector *)

VersionStrings ==
    { << >>,
      <<"2", "4", ".", "1", "0">>,
      <<"2", "5", ".", "0", "4">>,
      <<"2", "5", ".", "0", "3">>,
      <<"2", "5", ".", "1", "0">>,
      <<"2", "5", ".", "4">>,
      <<"2", "5", ".", "0">>,
      <<"2", "6", ".", "0">>,
      <<"2", "5">>,
      <<"2", "5", ".">>,
      <<"E", "e", "l">>,
      <<"S", "-", "2", "4", ".", "1", "0", ".", "2">>,
      <<"S", "-", "2", "5", ".", "0", "4", ".", "0">>,
      <<"v", "2", "5", ".", "0", "4", "0">>,
      <<"2", "5", ".", "0", "3", "9">> }

\* body of the probe response: not JSON, a JSON array, or a JSON object whose
\* version key is absent, null or a string
ProbeBody(json, vkind, version) == [json |-> json, vkind |-> vkind, version |-> version]

ProbeBodies ==
    { ProbeBody("invalid", "absent", << >>), ProbeBody("array", "absent", << >>),
      ProbeBody("object", "absent", << >>), ProbeBody("object", "null", << >>) }
    \cup { ProbeBody("object", "string", v) : v \in VersionStrings }

ProbeOutcomes ==
    { Answer("silent", 0, ProbeBody("invalid", "absent", << >>)),
      Answer("exc", 0, ProbeBody("invalid", "absent", << >>)) }
    \cup { Answer("http", st, b) : st \in Statuses, b \in ProbeBodies }

NoProbe == Answer("none", 0, ProbeBody("invalid", "absent", << >>))

\* faulty variant: the except branch selects the session dialect
detect_except_websocket(p, force) ==
    IF Raises(p, Timeout("probe")) THEN "websocket"
    ELSE IF p.status # 200 THEN "rest"
    ELSE IF p.body.json # "object" THEN "websocket"
    ELSE IF p.body.vkind = "null" THEN "websocket"
    ELSE LET version == IF p.body.vkind = "string" THEN p.body.version ELSE << >>
             match == re_search(version)
         IN  IF match # << >>
             THEN IF AtLeastThreshold(match[1]) \/ force THEN "websocket" ELSE "rest"
             ELSE "rest"

\* detect_truenas_version(): the api_type it returns for probe outcome p.
\* Everything runs inside try/except Exception, so a raising request (or a
\* timeout), response.json() on a non-JSON body, .get on a JSON array and
\* re.search on a null version all end in the except branch.
detect_truenas_version(p, force) ==
    IF Raises(p, Timeout("probe")) THEN "rest"
    ELSE IF p.status # 200 THEN "rest"
    ELSE IF p.body.json # "object" THEN "rest"
    ELSE IF p.body.vkind = "null" THEN "rest"
    ELSE LET version == IF p.body.vkind = "string" THEN p.body.version ELSE << >>
             match == re_search(version)
         IN  IF match # << >>
             THEN IF AtLeastThreshold(match[1]) \/ force THEN "websocket" ELSE "rest"
             ELSE "rest"

\* update_charts, lines 322-326: the client class for an api_type
ClientFor(t) == IF t = "websocket" THEN "TrueNASWebSocketAPI" ELSE "TrueNASRestAPI"

\* the methods each client class defines
Methods(c) ==
    IF c = "TrueNASWebSocketAPI" THEN {"connect", "disconnect", "call"}
    ELSE IF c = "TrueNASRestAPI"
    THEN {"get_chart_releases", "upgrade_chart_release", "wait_for_job"}
    ELSE {}

---------------------------------------------------------------------------
(* Release records and the Normalizer *)

\* raw release records as the backend returns them
RawRecords ==
    { [release_name |-> "app1", update_available |-> TRUE],
      [release_name |-> "app2", update_available |-> FALSE, id |-> "id2"],
      [config |-> [release_name |-> "app3"], update_available |-> FALSE,
       container_images_update_available |-> TRUE],
      [release_name |-> "", id |-> "app4", update_available |-> TRUE],
      [name |-> "app5", config |-> [version |-> "1"], update_available |-> TRUE] }

ReleaseLists == UNION { [1..n -> RawRecords] : n \in 0..MaxReleases }

\* dict.get(k) on a key holding a string: None when the key is absent
GetStr(r, k) == IF k \in DOMAIN r THEN r[k] ELSE None

\* truthiness of dict.get(k) on a key holding a boolean: absent is None, falsy
GetFlag(r, k) == IF k \in DOMAIN r THEN r[k] ELSE FALSE

\* release.get("config", {}): the empty dict when the key is absent
GetConfig(r) == IF "config" \in DOMAIN r THEN r.config ELSE << >>

\* needs_update(release)
needs_update(r) ==
    GetFlag(r, "update_available") \/ GetFlag(r, "container_images_update_available")

\* the identifier expression of the loop: a or b or c yields the first truthy
\* operand, else the last one
release_identifier(r) ==
    LET a == GetStr(r, "release_name")
        b == GetStr(GetConfig(r), "release_name")
        c == GetStr(r, "id")
    IN  IF Truthy(a) THEN a ELSE IF Truthy(b) THEN b ELSE c

---------------------------------------------------------------------------
(* REST client (src/app.py) *)

ListBody(json, val) == [json |-> json, val |-> val]

ListAnswers ==
    { Answer("silent", 0, ListBody("invalid", << >>)),
      Answer("exc", 0, ListBody("invalid", << >>)) }
    \cup { Answer("http", st, ListBody("invalid", << >>)) : st \in Statuses }
    \cup { Answer("http", st, ListBody("array", l)) : st \in Statuses, l \in ReleaseLists }

\* text of the upgrade response
TriggerTexts == { << >>, <<" ">>, <<"7">>, <<"8", "\n">> }

TriggerAnswers ==
    { Answer("silent", 0, << >>), Answer("exc", 0, << >>) }
    \cup { Answer("http", st, t) : st \in Statuses, t \in TriggerTexts }

JobAnswers ==
    { Answer("silent", 0, << >>), Answer("exc", 0, << >>) }
    \cup { Answer("http", st, << >>) : st \in Statuses }

\* TrueNASRestAPI.get_chart_releases: None, or the decoded list
get_chart_releases(ans) ==
    IF Raises(ans, Timeout("list")) THEN RetNone(<< >>)
    ELSE IF ans.status # 200 THEN RetNone(<< >>)
    ELSE IF ans.body.json = "invalid" THEN RetNone(<< >>)
    ELSE Ret(ans.body.val)

\* TrueNASRestAPI.upgrade_chart_release: None, or the stripped response text
upgrade_chart_release(ans) ==
    IF Raises(ans, Timeout("trigger")) THEN RetNone(<< >>)
    ELSE IF ans.status # 200 THEN RetNone(<< >>)
    ELSE Ret(strip(ans.body))

\* TrueNASRestAPI.wait_for_job: None, or the response object (its status)
wait_for_job(ans) ==
    IF Raises(ans, Timeout("await")) THEN RetNone(0)
    ELSE IF ans.status # 200 THEN RetNone(0)
    ELSE Ret(ans.status)

\* bool(x) of what a client method returned: None and the empty list/string
\* are falsy
SeqTruthy(r) == ~r.none /\ r.val # << >>

\* bool(response): requests.Response.__bool__ is response.ok
ResponseTruthy(r) == ~r.none /\ r.val < 400

---------------------------------------------------------------------------
(* Logs *)

\* one control-plane request: the operation, the candidate (index and
\* identifier) it is for, the job handle it carries or obtains, and how the
\* client call ended ("pending": it has not returned)
Call(op, cand, release, job, ret) ==
    [op |-> op, cand |-> cand, release |-> release, job |-> job, ret |-> ret]

\* send_notification(title, message): the message names release about, the
\* candidate at index cand (0: none); apobj.notify runs only with APPRISE_URLS
send_notification(ns, title, cand, about) ==
    Append(ns, [title |-> title, cand |-> cand, about |-> about,
                delivered |-> APPRISE_URLS])

FailureTitles == {"Configuration Error", "Error", "Upgrade Failed"}

---------------------------------------------------------------------------
(* Session client: class TrueNASWebSocketAPI of src/app.py *)

\* calls made on one client object
MaxCalls == 2

\* frames one call discards before the backend answers it or goes quiet
MaxChatter == 1

DigitChar(d) ==
    CASE d = 0 -> "0" [] d = 1 -> "1" [] d = 2 -> "2" [] d = 3 -> "3"
      [] d = 4 -> "4" [] d = 5 -> "5" [] d = 6 -> "6" [] d = 7 -> "7"
      [] d = 8 -> "8" [] d = 9 -> "9"

\* str(n) for n >= 0
RECURSIVE str(_)
str(n) == IF n < 10 THEN << DigitChar(n) >> ELSE Append(str(n \div 10), DigitChar(n % 10))

\* the "id" of a JSON frame: a string, a number, or absent
StrId(n) == [t |-> "str", v |-> str(n)]
NumId(n) == [t |-> "num", v |-> str(n)]
NoId == [t |-> "absent", v |-> << >>]

\* methods a caller invokes through call()
CallMethods == {"app.query", "app.upgrade"}

\* a frame the server sends while a call waits.  kind "object" is a JSON
\* object; result and error are "" when the key is absent
Frame(id, msg, res, err) ==
    [kind |-> "object", id |-> id, msg |-> msg, result |-> res, error |-> err]

NoFrame == [kind |-> "none", id |-> NoId, msg |-> "", result |-> "", error |-> ""]

\* what one ws.recv() of the read loop can bring for the call with number n:
\* frames for this call, for the previous one (a late reply), with a numeric
\* or no id; text that is not a JSON object; a timeout; a closed connection
RecvOutcomes(n) ==
    { Frame(id, msg, res, err) :
        id \in {StrId(n), StrId(n - 1), NumId(n), NoId},
        msg \in {"result", "changed"},
        res \in {"", "r1"},
        err \in {"", "e1"} }
    \cup { [kind |-> k, id |-> NoId, msg |-> "", result |-> "", error |-> ""] :
             k \in {"invalid", "array", "timeout", "closed"} }

\* what connect() can meet: create_connection raises; the connect frame
\* cannot be sent; recv raises or times out (no acknowledgment); the reply is
\* not a JSON object; the reply is an object with some msg and maybe a session
HandshakeOutcomes ==
    { [kind |-> k, msg |-> "", session |-> None] :
        k \in {"refused", "send_failed", "no_reply", "invalid", "array"} }
    \cup { [kind |-> "object", msg |-> m, session |-> s] :
             m \in {"connected", "failed", ""}, s \in {None, "s1"} }

\* one socket: whether the client still holds it open, and the reply to its
\* connect frame
Sock(open, ack) == [open |-> open, ack |-> ack]

NoAck == [kind |-> "none", msg |-> "", session |-> None]

OpenSocks == { i \in DOMAIN socks : socks[i].open }

\* ws.close() on the socket the client holds, if any
Closed(ss, w) == IF w = 0 THEN ss ELSE [ss EXCEPT ![w].open = FALSE]

\* one frame written to a socket
Sent(sock, msg, id, method) == [sock |-> sock, msg |-> msg, id |-> id, method |-> method]

\* how a call ended, and the connection it left behind: the call's number
\* (0: none assigned), its method, the value returned, the frame the value
\* was taken from, why the call ended, self.ws and self.connected at the
\* return, whether that socket is still open, the sockets created so far, and
\* the frames the call discarded
Return(c, val, frame, cause, w, conn, ss) ==
    [id |-> c.id, method |-> c.method, val |-> val, frame |-> frame,
     cause |-> cause, sock |-> w, connected |-> conn,
     skipped |-> Len(c.discarded),
     open |-> (w # 0 /\ ss[w].open), opened |-> Len(ss)]

NoCall == [method |-> "", id |-> 0, discarded |-> << >>]

\* lines 131-139: __init__
FreshClient ==
    /\ ws = 0
    /\ call_id = 1
    /\ connected = FALSE
    /\ session_id = None
    /\ ws_pc = "idle"
    /\ cur = NoCall
    /\ socks = << >>
    /\ sent = << >>
    /\ returns = << >>

\* a caller enters call(method): lines 196-199
WS_Call ==
    /\ ws_pc \in {"idle", "disconnected"}
    /\ Len(returns) < MaxCalls
    /\ \E m \in CallMethods : cur' = [method |-> m, id |-> 0, discarded |-> << >>]
    /\ ws_pc' = IF connected THEN "send" ELSE "connect"
    /\ UNCHANGED << ws, call_id, connected, session_id, socks, sent, returns >>

\* lines 165-172: the acknowledgment connect() accepts
handshake_accepted(reply) == reply.msg = "connected"

\* connect(), lines 141-182, and the caller's lines 198-199
WS_ConnectWith(out) ==
    LET new == Len(socks) + 1
    IN  IF out.kind = "refused"
        THEN \* create_connection raised: self.ws is what it was
             /\ socks' = Closed(socks, ws)
             /\ ws' = 0
             /\ returns' = Append(returns, Return(cur, RetNone(""), NoFrame, "connect",
                                                  0, connected, socks'))
             /\ ws_pc' = "idle"
             /\ cur' = NoCall
             /\ UNCHANGED << connected, session_id, sent >>
        ELSE IF out.kind = "send_failed"
        THEN /\ socks' = Append(socks, Sock(FALSE, NoAck))
             /\ ws' = 0
             /\ returns' = Append(returns, Return(cur, RetNone(""), NoFrame, "connect",
                                                  0, connected, socks'))
             /\ ws_pc' = "idle"
             /\ cur' = NoCall
             /\ UNCHANGED << connected, session_id, sent >>
        ELSE IF out.kind \in {"no_reply", "invalid", "array"}
        THEN /\ socks' = Append(socks, Sock(FALSE, out))
             /\ sent' = Append(sent, Sent(new, "connect", NoId, ""))
             /\ ws' = 0
             /\ returns' = Append(returns, Return(cur, RetNone(""), NoFrame, "connect",
                                                  0, connected, socks'))
             /\ ws_pc' = "idle"
             /\ cur' = NoCall
             /\ UNCHANGED << connected, session_id >>
        ELSE IF handshake_accepted(out)
        THEN /\ socks' = Append(socks, Sock(TRUE, out))
             /\ sent' = Append(sent, Sent(new, "connect", NoId, ""))
             /\ ws' = new
             /\ session_id' = out.session
             /\ connected' = TRUE
             /\ ws_pc' = "send"
             /\ UNCHANGED << returns, cur >>
        ELSE \* line 172: return False; the socket is neither closed nor dropped
             /\ socks' = Append(socks, Sock(TRUE, out))
             /\ sent' = Append(sent, Sent(new, "connect", NoId, ""))
             /\ ws' = new
             /\ returns' = Append(returns, Return(cur, RetNone(""), NoFrame, "connect",
                                                  new, connected, socks'))
             /\ ws_pc' = "idle"
             /\ cur' = NoCall
             /\ UNCHANGED << connected, session_id >>

WS_Connect ==
    /\ ws_pc = "connect"
    /\ \E out \in HandshakeOutcomes : WS_ConnectWith(out)
    /\ UNCHANGED call_id

\* faulty variant: the counter stays where it is
same_call_id(n) == n

\* line 202: self.call_id += 1
next_call_id(n) == n + 1

\* lines 201-213 (and 238-241): number the call and send its method frame
WS_SendWith(ok) ==
    LET c == [cur EXCEPT !.id = call_id]
    IN  /\ call_id' = next_call_id(call_id)
        /\ IF ok
           THEN /\ sent' = Append(sent, Sent(ws, "method", StrId(c.id), c.method))
                /\ cur' = c
                /\ ws_pc' = "recv"
                /\ UNCHANGED << connected, returns >>
           ELSE /\ connected' = FALSE
                /\ returns' = Append(returns, Return(c, RetNone(""), NoFrame, "fault",
                                                     ws, FALSE, socks))
                /\ ws_pc' = "idle"
                /\ cur' = NoCall
                /\ UNCHANGED sent

WS_Send ==
    /\ ws_pc = "send"
    /\ \E ok \in BOOLEAN : WS_SendWith(ok)
    /\ UNCHANGED << ws, session_id, socks >>

\* faulty variant: any result frame is taken for the answer
is_any_result(f, n) == f.msg = "result"

\* line 224: is this frame the answer to call n
is_our_response(f, n) == f.id = StrId(n) /\ f.msg = "result"

\* lines 225-229: what a matching frame makes the call return
response_value(f) ==
    IF f.error # "" THEN RetNone("")
    ELSE IF f.result = "" THEN RetNone("") ELSE Ret(f.result)

\* lines 218-241: one pass of the read loop
WS_RecvWith(f) ==
    IF f.kind = "timeout"
    THEN /\ returns' = Append(returns, Return(cur, RetNone(""), NoFrame, "timeout",
                                              ws, connected, socks))
         /\ ws_pc' = "idle"
         /\ cur' = NoCall
         /\ UNCHANGED connected
    ELSE IF f.kind \in {"closed", "invalid", "array"}
    THEN /\ connected' = FALSE
         /\ returns' = Append(returns, Return(cur, RetNone(""), NoFrame, "fault",
                                              ws, FALSE, socks))
         /\ ws_pc' = "idle"
         /\ cur' = NoCall
    ELSE IF is_our_response(f, cur.id)
    THEN /\ returns' = Append(returns,
                              Return(cur, response_value(f), f,
                                     IF f.error # "" THEN "error" ELSE "result",
                                     ws, connected, socks))
         /\ ws_pc' = "idle"
         /\ cur' = NoCall
         /\ UNCHANGED connected
    ELSE /\ Len(cur.discarded) < MaxChatter
         /\ cur' = [cur EXCEPT !.discarded = Append(@, f)]
         /\ UNCHANGED << returns, ws_pc, connected >>

WS_Recv ==
    /\ ws_pc = "recv"
    /\ \E f \in RecvOutcomes(cur.id) : WS_RecvWith(f)
    /\ UNCHANGED << ws, call_id, session_id, socks, sent >>

\* disconnect(), lines 184-194
WS_Disconnect ==
    /\ ws_pc = "idle"
    /\ IF ws # 0
       THEN /\ socks' = Closed(socks, ws)
            /\ ws' = 0
            /\ connected' = FALSE
            /\ session_id' = None
       ELSE UNCHANGED << socks, ws, connected, session_id >>
    /\ ws_pc' = "disconnected"
    /\ UNCHANGED << call_id, cur, sent, returns >>


---------------------------------------------------------------------------
(* Initial states *)

EnvValues == {None, "", "set"}

NoSummary == [successes |-> -1, attempts |-> -1]

Fresh ==
    /\ probe = NoProbe
    /\ api_type = "none"
    /\ api_client = "none"
    /\ releases_to_upgrade = << >>
    /\ idx = 0
    /\ job_id = << >>
    /\ update_count = 0
    /\ calls = << >>
    /\ notifications = << >>
    /\ summary = NoSummary
    /\ terminal = "running"
    /\ result = "none"
    /\ exit_code = -1

Init ==
    /\ prog \in {"app", "main"}
    /\ BASE_URL \in EnvValues
    /\ API_KEY \in EnvValues
    /\ APPRISE_URLS \in BOOLEAN
    /\ NOTIFY_ON_SUCCESS \in BOOLEAN
    /\ FORCE_WEBSOCKET \in (IF prog = "app" THEN BOOLEAN ELSE {FALSE})
    /\ pc = "config"
    /\ Fresh
    /\ FreshClient

---------------------------------------------------------------------------
(* Configuration check: src/app.py 69-73, src/app/main.py 30-33 *)

\* faulty variant: only BASE_URL is checked
ConfigCheck_only_url ==
    /\ pc = "config"
    /\ IF ~Truthy(BASE_URL)
       THEN /\ notifications' = send_notification(notifications, "Configuration Error", 0, "")
            /\ terminal' = "ConfigError"
            /\ exit_code' = 1
            /\ pc' = "done"
       ELSE /\ pc' = IF prog = "app" THEN "detect" ELSE "list"
            /\ UNCHANGED << notifications, terminal, exit_code >>
    /\ UNCHANGED << env, probe, api_type, api_client, releases_to_upgrade, idx,
                    job_id, update_count, calls, summary, result >>

ConfigCheck ==
    /\ pc = "config"
    /\ IF ~Truthy(BASE_URL) \/ ~Truthy(API_KEY)
       THEN /\ notifications' = send_notification(notifications, "Configuration Error", 0, "")
            /\ terminal' = "ConfigError"
            /\ exit_code' = 1
            /\ pc' = "done"
       ELSE /\ pc' = IF prog = "app" THEN "detect" ELSE "list"
            /\ UNCHANGED << notifications, terminal, exit_code >>
    /\ UNCHANGED << env, probe, api_type, api_client, releases_to_upgrade, idx,
                    job_id, update_count, calls, summary, result >>

---------------------------------------------------------------------------
(* update_charts of src/app.py *)

\* lines 319-326: detect the dialect and construct the client
DetectWith(p) ==
    /\ pc = "detect"
    /\ api_type' = detect_truenas_version(p, FORCE_WEBSOCKET)
    /\ api_client' = ClientFor(api_type')
    /\ calls' = Append(calls, Call("probe", 0, "", << >>, "done"))
    /\ pc' = "list"
    /\ UNCHANGED << env, probe, releases_to_upgrade, idx, job_id, update_count,
                    notifications, summary, terminal, result, exit_code >>

Detect == \E p \in ProbeOutcomes : DetectWith(p)

\* an attribute lookup of a method the client class does not define raises
\* AttributeError, which nothing catches: traceback, exit status 1
MethodMissing(m) == m \notin Methods(api_client)

App_ListNoMethod ==
    /\ pc = "list" /\ prog = "app"
    /\ MethodMissing("get_chart_releases")
    /\ terminal' = "Crashed"
    /\ exit_code' = 1
    /\ pc' = "done"
    /\ UNCHANGED << env, probe, api_type, api_client, releases_to_upgrade, idx,
                    job_id, update_count, calls, notifications, summary, result >>

\* faulty variant: only the empty list counts as a failed listing
list_failed_only_empty(releases) == ~releases.none /\ releases.val = << >>

\* line 331: if not releases
list_failed(releases) == ~SeqTruthy(releases)

\* how a list call ended, for the log
ListRet(releases) ==
    IF releases.none THEN "None" ELSE IF releases.val = << >> THEN "empty" ELSE "list"

\* lines 329-353: list, give up on a falsy result, else filter
App_ListWith(ans) ==
    IF Hangs(ans, Timeout("list"))
    THEN /\ calls' = Append(calls, Call("list", 0, "", << >>, "pending"))
         /\ pc' = "hung"
         /\ UNCHANGED << env, probe, api_type, api_client, releases_to_upgrade, idx,
                         job_id, update_count, notifications, summary, terminal,
                         result, exit_code >>
    ELSE LET releases == get_chart_releases(ans)
         IN  /\ calls' = Append(calls, Call("list", 0, "", << >>, ListRet(releases)))
             /\ IF list_failed(releases)
                THEN /\ notifications' = send_notification(notifications, "Error", 0, "")
                     /\ result' = "False"
                     /\ terminal' = "ListFailed"
                     /\ exit_code' = 0
                     /\ pc' = "done"
                     /\ UNCHANGED << releases_to_upgrade, idx, update_count >>
                ELSE /\ releases_to_upgrade' = SelectSeq(releases.val, needs_update)
                     /\ update_count' = 0
                     /\ idx' = 1
                     /\ pc' = "loop"
                     /\ UNCHANGED << notifications, result, terminal, exit_code >>
             /\ UNCHANGED << env, probe, api_type, api_client, job_id, summary >>

App_List ==
    /\ pc = "list" /\ prog = "app"
    /\ ~MethodMissing("get_chart_releases")
    /\ \E ans \in ListAnswers : App_ListWith(ans)

\* lines 363-365: a candidate without identifier is skipped
App_Skip ==
    /\ pc = "loop" /\ prog = "app"
    /\ idx <= Len(releases_to_upgrade)
    /\ ~Truthy(release_identifier(releases_to_upgrade[idx]))
    /\ idx' = idx + 1
    /\ UNCHANGED << env, pc, probe, api_type, api_client, releases_to_upgrade,
                    job_id, update_count, calls, notifications, summary, terminal,
                    result, exit_code >>

\* faulty variant: break instead of continue
after_trigger_failure_break(i, n) == n + 1

\* faulty variant: a failed trigger is tried again on the same candidate
after_trigger_failure_retry(i, n) == i

\* line 375: continue (the index the loop goes on with; n is the list length)
after_trigger_failure(i, n) == i + 1

\* lines 369-375: trigger the upgrade; on a falsy job id notify and continue
App_TriggerWith(ans) ==
    LET ident == release_identifier(releases_to_upgrade[idx])
    IN  IF Hangs(ans, Timeout("trigger"))
        THEN /\ calls' = Append(calls, Call("trigger", idx, ident, << >>, "pending"))
             /\ pc' = "hung"
             /\ UNCHANGED << idx, job_id, notifications >>
        ELSE LET job == upgrade_chart_release(ans)
             IN  IF ~SeqTruthy(job)
                 THEN /\ calls' = Append(calls, Call("trigger", idx, ident, << >>, "None"))
                      /\ notifications' =
                             send_notification(notifications, "Upgrade Failed", idx, ident)
                      /\ idx' = after_trigger_failure(idx, Len(releases_to_upgrade))
                      /\ UNCHANGED << pc, job_id >>
                 ELSE /\ calls' = Append(calls, Call("trigger", idx, ident, job.val, "handle"))
                      /\ job_id' = job.val
                      /\ pc' = "wait"
                      /\ UNCHANGED << idx, notifications >>

App_Trigger ==
    /\ pc = "loop" /\ prog = "app"
    /\ idx <= Len(releases_to_upgrade)
    /\ Truthy(release_identifier(releases_to_upgrade[idx]))
    /\ \E ans \in TriggerAnswers : App_TriggerWith(ans)
    /\ UNCHANGED << env, probe, api_type, api_client, releases_to_upgrade,
                    update_count, summary, terminal, result, exit_code >>

\* faulty variant: the counter is incremented whatever the job's result
on_job_result_counts_all(ok, count, ns, i, ident) ==
    IF ok
    THEN [count |-> count + 1,
          ns |-> IF NOTIFY_ON_SUCCESS
                 THEN send_notification(ns, "Chart Updated", i, ident) ELSE ns]
    ELSE [count |-> count + 1,
          ns |-> send_notification(ns, "Upgrade Failed", i, ident)]

\* faulty variant: a failed job is not notified
on_job_result_silent_failure(ok, count, ns, i, ident) ==
    IF ok
    THEN [count |-> count + 1,
          ns |-> IF NOTIFY_ON_SUCCESS
                 THEN send_notification(ns, "Chart Updated", i, ident) ELSE ns]
    ELSE [count |-> count, ns |-> ns]

\* lines 379-388: what the job's result does to the counter and the notifier
on_job_result(ok, count, ns, i, ident) ==
    IF ok
    THEN [count |-> count + 1,
          ns |-> IF NOTIFY_ON_SUCCESS
                 THEN send_notification(ns, "Chart Updated", i, ident) ELSE ns]
    ELSE [count |-> count,
          ns |-> send_notification(ns, "Upgrade Failed", i, ident)]

\* lines 377-390: wait for the job, account for its result, next candidate
App_AwaitWith(ans) ==
    LET ident == release_identifier(releases_to_upgrade[idx])
    IN  IF Hangs(ans, Timeout("await"))
        THEN /\ calls' = Append(calls, Call("await", idx, ident, job_id, "pending"))
             /\ pc' = "hung"
             /\ UNCHANGED << idx, job_id, update_count, notifications >>
        ELSE LET job_result == wait_for_job(ans)
                 ok == ResponseTruthy(job_result)
                 out == on_job_result(ok, update_count, notifications, idx, ident)
             IN  /\ calls' = Append(calls, Call("await", idx, ident, job_id,
                                                IF ok THEN "success" ELSE "None"))
                 /\ update_count' = out.count
                 /\ notifications' = out.ns
                 /\ idx' = idx + 1
                 /\ job_id' = << >>
                 /\ pc' = "loop"

App_Await ==
    /\ pc = "wait" /\ prog = "app"
    /\ \E ans \in JobAnswers : App_AwaitWith(ans)
    /\ UNCHANGED << env, probe, api_type, api_client, releases_to_upgrade,
                    summary, terminal, result, exit_code >>

\* line 398: return update_count > 0
run_result(count) == IF count > 0 THEN "True" ELSE "False"

\* faulty variant: the exit status follows the result
App_Finish_exit_by_result ==
    /\ pc = "loop" /\ prog = "app"
    /\ idx > Len(releases_to_upgrade)
    /\ summary' = [successes |-> update_count, attempts |-> Len(releases_to_upgrade)]
    /\ result' = run_result(update_count)
    /\ terminal' = IF releases_to_upgrade = << >> THEN "NoUpdatesNeeded" ELSE "Finish"
    /\ exit_code' = IF update_count > 0 THEN 0 ELSE 1
    /\ pc' = "done"
    /\ UNCHANGED << env, probe, api_type, api_client, releases_to_upgrade, idx,
                    job_id, update_count, calls, notifications >>

\* lines 392-398 (and 345-346): disconnect a session client, log the summary
\* line, return.  The REST client has nothing to disconnect.
App_Finish ==
    /\ pc = "loop" /\ prog = "app"
    /\ idx > Len(releases_to_upgrade)
    /\ summary' = [successes |-> update_count, attempts |-> Len(releases_to_upgrade)]
    /\ result' = run_result(update_count)
    /\ terminal' = IF releases_to_upgrade = << >> THEN "NoUpdatesNeeded" ELSE "Finish"
    /\ exit_code' = 0
    /\ pc' = "done"
    /\ UNCHANGED << env, probe, api_type, api_client, releases_to_upgrade, idx,
                    job_id, update_count, calls, notifications >>

---------------------------------------------------------------------------
(* src/app/main.py: the REST-only script *)

\* lines 39-61: list; a raising request or a non-200 status notifies and
\* exits 1; response.json() on a non-JSON body raises uncaught
Main_ListWith(ans) ==
    IF Hangs(ans, Timeout("list"))
    THEN /\ calls' = Append(calls, Call("list", 0, "", << >>, "pending"))
         /\ pc' = "hung"
         /\ UNCHANGED << releases_to_upgrade, idx, notifications, terminal, exit_code >>
    ELSE IF Raises(ans, Timeout("list")) \/ ans.status # 200
    THEN /\ calls' = Append(calls, Call("list", 0, "", << >>, "None"))
         /\ notifications' = send_notification(notifications, "Error", 0, "")
         /\ terminal' = "ListFailed"
         /\ exit_code' = 1
         /\ pc' = "done"
         /\ UNCHANGED << releases_to_upgrade, idx >>
    ELSE IF ans.body.json = "invalid"
    THEN /\ calls' = Append(calls, Call("list", 0, "", << >>, "raised"))
         /\ terminal' = "Crashed"
         /\ exit_code' = 1
         /\ pc' = "done"
         /\ UNCHANGED << releases_to_upgrade, idx, notifications >>
    ELSE /\ calls' = Append(calls, Call("list", 0, "", << >>,
                                        IF ans.body.val = << >> THEN "empty" ELSE "list"))
         /\ releases_to_upgrade' = SelectSeq(ans.body.val, needs_update)
         /\ idx' = 1
         /\ pc' = "loop"
         /\ UNCHANGED << notifications, terminal, exit_code >>

Main_List ==
    /\ pc = "list" /\ prog = "main"
    /\ \E ans \in ListAnswers : Main_ListWith(ans)
    /\ UNCHANGED << env, probe, api_type, api_client, job_id, update_count,
                    summary, result >>

\* lines 92-94
Main_Skip ==
    /\ pc = "loop" /\ prog = "main"
    /\ idx <= Len(releases_to_upgrade)
    /\ ~Truthy(release_identifier(releases_to_upgrade[idx]))
    /\ idx' = idx + 1
    /\ UNCHANGED << env, pc, probe, api_type, api_client, releases_to_upgrade,
                    job_id, update_count, calls, notifications, summary, terminal,
                    result, exit_code >>

\* lines 98-119: trigger; the job id is the stripped text, whatever it is
Main_TriggerWith(ans) ==
    LET ident == release_identifier(releases_to_upgrade[idx])
    IN  IF Hangs(ans, Timeout("trigger"))
        THEN /\ calls' = Append(calls, Call("trigger", idx, ident, << >>, "pending"))
             /\ pc' = "hung"
             /\ UNCHANGED << idx, job_id, notifications >>
        ELSE IF Raises(ans, Timeout("trigger")) \/ ans.status # 200
        THEN /\ calls' = Append(calls, Call("trigger", idx, ident, << >>, "None"))
             /\ notifications' =
                    send_notification(notifications, "Upgrade Failed", idx, ident)
             /\ idx' = idx + 1
             /\ UNCHANGED << pc, job_id >>
        ELSE /\ calls' = Append(calls, Call("trigger", idx, ident, strip(ans.body), "handle"))
             /\ job_id' = strip(ans.body)
             /\ pc' = "wait"
             /\ UNCHANGED << idx, notifications >>

Main_Trigger ==
    /\ pc = "loop" /\ prog = "main"
    /\ idx <= Len(releases_to_upgrade)
    /\ Truthy(release_identifier(releases_to_upgrade[idx]))
    /\ \E ans \in TriggerAnswers : Main_TriggerWith(ans)
    /\ UNCHANGED << env, probe, api_type, api_client, releases_to_upgrade,
                    update_count, summary, terminal, result, exit_code >>

\* await_job, lines 65-82: None, or the response object (its status)
await_job(ans) ==
    IF Raises(ans, Timeout("await")) THEN RetNone(0)
    ELSE IF ans.status # 200 THEN RetNone(0)
    ELSE Ret(ans.status)

\* lines 120-132: wait for the job and notify; the script keeps no counter
Main_AwaitWith(ans) ==
    LET ident == release_identifier(releases_to_upgrade[idx])
    IN  IF Hangs(ans, Timeout("await"))
        THEN /\ calls' = Append(calls, Call("await", idx, ident, job_id, "pending"))
             /\ pc' = "hung"
             /\ UNCHANGED << idx, job_id, notifications >>
        ELSE LET job_result == await_job(ans)
                 ok == ResponseTruthy(job_result) /\ job_result.val = 200
             IN  /\ calls' = Append(calls, Call("await", idx, ident, job_id,
                                                IF ok THEN "success" ELSE "None"))
                 /\ notifications' =
                        IF ok
                        THEN IF NOTIFY_ON_SUCCESS
                             THEN send_notification(notifications, "Chart Updated", idx, ident)
                             ELSE notifications
                        ELSE send_notification(notifications, "Upgrade Failed", idx, ident)
                 /\ idx' = idx + 1
                 /\ job_id' = << >>
                 /\ pc' = "loop"

Main_Await ==
    /\ pc = "wait" /\ prog = "main"
    /\ \E ans \in JobAnswers : Main_AwaitWith(ans)
    /\ UNCHANGED << env, probe, api_type, api_client, releases_to_upgrade,
                    update_count, summary, terminal, result, exit_code >>

\* line 134: the script runs off its end, exit status 0
Main_Done ==
    /\ pc = "loop" /\ prog = "main"
    /\ idx > Len(releases_to_upgrade)
    /\ terminal' = IF releases_to_upgrade = << >> THEN "NoUpdatesNeeded" ELSE "Finish"
    /\ exit_code' = 0
    /\ pc' = "done"
    /\ UNCHANGED << env, probe, api_type, api_client, releases_to_upgrade, idx,
                    job_id, update_count, calls, notifications, summary, result >>

---------------------------------------------------------------------------
(* Specifications *)

Next ==
    \/ ConfigCheck /\ UNCHANGED client
    \/ Detect /\ UNCHANGED client
    \/ App_ListNoMethod /\ UNCHANGED client
    \/ App_List /\ UNCHANGED client
    \/ App_Skip /\ UNCHANGED client
    \/ App_Trigger /\ UNCHANGED client
    \/ App_Await /\ UNCHANGED client
    \/ App_Finish /\ UNCHANGED client
    \/ Main_List /\ UNCHANGED client
    \/ Main_Skip /\ UNCHANGED client
    \/ Main_Trigger /\ UNCHANGED client
    \/ Main_Await /\ UNCHANGED client
    \/ Main_Done /\ UNCHANGED client

Spec == Init /\ [][Next]_vars

\* The Detector alone: src/app.py past its configuration check, the probe's
\* outcome drawn beforehand and kept
DetectInit ==
    /\ prog = "app"
    /\ BASE_URL = "set"
    /\ API_KEY = "set"
    /\ APPRISE_URLS \in BOOLEAN
    /\ NOTIFY_ON_SUCCESS \in BOOLEAN
    /\ FORCE_WEBSOCKET \in BOOLEAN
    /\ pc = "detect"
    /\ probe \in ProbeOutcomes
    /\ api_type = "none"
    /\ api_client = "none"
    /\ releases_to_upgrade = << >>
    /\ idx = 0
    /\ job_id = << >>
    /\ update_count = 0
    /\ calls = << >>
    /\ notifications = << >>
    /\ summary = NoSummary
    /\ terminal = "running"
    /\ result = "none"
    /\ exit_code = -1
    /\ FreshClient

DetectProbed == DetectWith(probe) /\ UNCHANGED client

DetectNext == DetectProbed

DetectSpec == DetectInit /\ [][DetectNext]_vars

\* The session client alone: one TrueNASWebSocketAPI object as line 324 of
\* src/app.py constructs it, and a caller that makes up to MaxCalls calls and
\* disconnects between or after them
SessionInit ==
    /\ prog = "app"
    /\ BASE_URL = "set"
    /\ API_KEY = "set"
    /\ APPRISE_URLS = FALSE
    /\ NOTIFY_ON_SUCCESS = FALSE
    /\ FORCE_WEBSOCKET = FALSE
    /\ pc = "list"
    /\ probe = NoProbe
    /\ api_type = "websocket"
    /\ api_client = ClientFor("websocket")
    /\ releases_to_upgrade = << >>
    /\ idx = 0
    /\ job_id = << >>
    /\ update_count = 0
    /\ calls = << >>
    /\ notifications = << >>
    /\ summary = NoSummary
    /\ terminal = "running"
    /\ result = "none"
    /\ exit_code = -1
    /\ FreshClient

SessionNext ==
    \/ WS_Call /\ UNCHANGED << env, run >>
    \/ WS_Connect /\ UNCHANGED << env, run >>
    \/ WS_Send /\ UNCHANGED << env, run >>
    \/ WS_Recv /\ UNCHANGED << env, run >>
    \/ WS_Disconnect /\ UNCHANGED << env, run >>

SessionSpec == SessionInit /\ [][SessionNext]_vars

---------------------------------------------------------------------------
(* Vocabulary of the properties *)

Candidates == 1..Len(releases_to_upgrade)

\* candidate j has an identifier the loop can use
Resolvable(j) == Truthy(release_identifier(releases_to_upgrade[j]))

CallsOf(op) == { k \in DOMAIN calls : calls[k].op = op }

TriggerCalls(j) == { k \in CallsOf("trigger") : calls[k].cand = j }

AwaitCalls(j) == { k \in CallsOf("await") : calls[k].cand = j }

\* notifications about candidate j with a title among titles
Notes(j, titles) ==
    { k \in DOMAIN notifications :
        notifications[k].cand = j /\ notifications[k].title \in titles }

FailureNotes == { k \in DOMAIN notifications : notifications[k].title \in FailureTitles }

TriggerFailed(j) == \E k \in TriggerCalls(j) : calls[k].ret = "None"

JobSucceeded(j) ==
    /\ \E k \in TriggerCalls(j) : calls[k].ret = "handle"
    /\ \E k \in AwaitCalls(j) : calls[k].ret = "success"

JobFailed(j) == \E k \in AwaitCalls(j) : calls[k].ret = "None"

Successes == { j \in Candidates : JobSucceeded(j) }

\* a list call that ended the way listReleases fails: the request raised or
\* the status was not 200 (in src/app.py also: the body was not JSON)
ListCallFailed == \E k \in CallsOf("list") : calls[k].ret = "None"

ListCallReturned == \E k \in CallsOf("list") : calls[k].ret \in {"empty", "list"}

LoopOver == pc = "done" /\ terminal \in {"NoUpdatesNeeded", "Finish"}

---------------------------------------------------------------------------
(* Properties *)

\* C1: a failed trigger for candidate A does not stop the run: the loop moves
\* on, every later candidate with a resolvable identifier that the loop has
\* reached got exactly one trigger call of its own, a run that ends has gone
\* through the whole list, and in src/app.py every candidate whose trigger and
\* job wait both succeeded counts as one success of the run's result.
C1_TriggerFailureDoesNotAbort ==
    \A a \in Candidates :
        TriggerFailed(a) =>
            /\ terminal \in {"running", "Finish"}
            /\ idx > a
            /\ pc = "done" => idx = Len(releases_to_upgrade) + 1
            /\ \A b \in Candidates :
                   (b > a /\ Resolvable(b) /\ idx > b) => Cardinality(TriggerCalls(b)) = 1
            /\ (prog = "app" /\ pc = "done") =>
                   /\ update_count = Cardinality(Successes)
                   /\ summary.successes = update_count
                   /\ (\E b \in Successes : b > a) => result = "True"

C1_Witness ==
    /\ prog = "app" /\ pc = "done"
    /\ Len(releases_to_upgrade) = 2
    /\ TriggerFailed(1)
    /\ JobSucceeded(2)
    /\ update_count = 1
    /\ result = "True"

\* C2: when the list call fails, the run is over in ListFailed with exactly
\* one notification, of failure type, no trigger or await request was made,
\* and the result is not successful.
C2_ListFailureAborts ==
    ListCallFailed =>
        /\ pc = "done"
        /\ terminal = "ListFailed"
        /\ Cardinality(FailureNotes) = 1
        /\ Len(notifications) = 1
        /\ CallsOf("trigger") = {} /\ CallsOf("await") = {}
        /\ result # "True"

C2_Witness ==
    /\ prog = "app"
    /\ ListCallFailed
    /\ terminal = "ListFailed"
    /\ result = "False"
    /\ Len(notifications) = 1 /\ notifications[1].title = "Error"

\* C3 (as claimed): a list call that returns a list, the empty one included,
\* without any record flagged for update ends the run in NoUpdatesNeeded with
\* no failure notification and no trigger or await request.
C3_NoCandidatesIsSuccess ==
    (ListCallReturned /\ releases_to_upgrade = << >> /\ pc = "done") =>
        /\ terminal = "NoUpdatesNeeded"
        /\ FailureNotes = {}
        /\ CallsOf("trigger") = {} /\ CallsOf("await") = {}

\* C4 (as claimed): a run that selected the session client lists through it
\* and ends in one of the orchestrator's terminal states, never in a fault.
C4_SessionRunEndsInOrchestratorState ==
    (api_client = "TrueNASWebSocketAPI" /\ pc = "done") =>
        /\ terminal \in {"ListFailed", "NoUpdatesNeeded", "Finish"}
        /\ CallsOf("list") # {}

\* C5 (as claimed): with FORCE_WEBSOCKET set the Detector returns the session
\* dialect whatever the probe's outcome.
C5_OverrideForcesSession ==
    (FORCE_WEBSOCKET /\ pc # "detect") =>
        api_type = "websocket" /\ api_client = "TrueNASWebSocketAPI"

\* a probe that succeeded and carries a major.minor number: status 200, a
\* JSON object, a version string with digit "." digit somewhere in it
ParsableProbe(p) ==
    /\ p.kind = "http" /\ p.status = 200
    /\ p.body.json = "object" /\ p.body.vkind = "string"
    /\ \E i \in 1..(Len(p.body.version) - 2) :
           /\ p.body.version[i] \in Digits
           /\ p.body.version[i + 1] = "."
           /\ p.body.version[i + 2] \in Digits

\* C6: without the override, every probe outcome other than a successful
\* response with a parsable version resolves to REST; the Detector returns
\* (nothing is raised) and the run goes on to list with the REST client.
C6_ProbeFailureFallsBackToRest ==
    (~FORCE_WEBSOCKET /\ pc # "detect" /\ ~ParsableProbe(probe)) =>
        /\ api_type = "rest"
        /\ api_client = "TrueNASRestAPI"
        /\ pc = "list"
        /\ terminal = "running" /\ exit_code = -1

C6_Witness ==
    /\ ~FORCE_WEBSOCKET
    /\ pc = "list"
    /\ probe.kind = "http" /\ probe.status = 200 /\ probe.body.json = "invalid"
    /\ api_client = "TrueNASRestAPI"

\* C7 (as claimed): a candidate without identifier gets no trigger call and no
\* failure notification, the loop passes it, and the number the run reports
\* as attempted counts only candidates whose upgrade was triggered.
C7_SkippedNeverAttempted ==
    \A j \in Candidates :
        ~Resolvable(j) =>
            /\ TriggerCalls(j) = {} /\ AwaitCalls(j) = {}
            /\ Notes(j, FailureTitles) = {}
            /\ pc = "done" => idx > j
            /\ (prog = "app" /\ LoopOver) =>
                   summary.attempts =
                       Cardinality({ b \in Candidates : TriggerCalls(b) # {} })

\* C8: when a run of src/app.py that got past the list call ends, the success
\* count it reports is the number of candidates whose trigger returned a job
\* handle and whose job wait succeeded, at most the number of candidates, and
\* the result is successful exactly when that count is at least one.
C8_SuccessCountAndResult ==
    (prog = "app" /\ LoopOver) =>
        /\ update_count = Cardinality(Successes)
        /\ summary.successes = update_count
        /\ update_count <= Len(releases_to_upgrade)
        /\ result = "True" <=> update_count >= 1
        /\ (releases_to_upgrade # << >> /\ update_count = 0) =>
               result = "False" /\ exit_code = 0

C8_Witness ==
    /\ prog = "app" /\ LoopOver
    /\ Len(releases_to_upgrade) = 2
    /\ JobSucceeded(1)
    /\ JobFailed(2)
    /\ update_count = 1 /\ result = "True"

\* C9: a failed job wait for a candidate whose trigger succeeded yields exactly
\* one failure notification and no success notification for that candidate,
\* leaves the success counter alone, and the loop goes on; a success
\* notification exists only for a candidate whose job succeeded, and only
\* with NOTIFY_ON_SUCCESS.
C9_JobFailureNotifiedOnce ==
    /\ \A j \in Candidates :
           /\ JobFailed(j) =>
                  /\ Cardinality(Notes(j, FailureTitles)) = 1
                  /\ Notes(j, {"Chart Updated"}) = {}
                  /\ idx > j
                  /\ terminal \in {"running", "Finish"}
                  /\ pc = "done" => idx = Len(releases_to_upgrade) + 1
           /\ Notes(j, {"Chart Updated"}) # {} =>
                  /\ NOTIFY_ON_SUCCESS
                  /\ \E k \in AwaitCalls(j) : calls[k].ret = "success"
                  /\ Cardinality(Notes(j, {"Chart Updated"})) = 1
    /\ prog = "app" =>
           update_count = Cardinality({ j \in Candidates :
                                          \E k \in AwaitCalls(j) : calls[k].ret = "success" })

C9_Witness ==
    /\ pc = "done"
    /\ Len(releases_to_upgrade) = 2
    /\ JobFailed(1)
    /\ Notes(1, {"Upgrade Failed"}) # {}
    /\ Notes(2, {"Chart Updated"}) # {}

\* C10 (as claimed): no control-plane call of src/app.py waits for ever, so a
\* run that has not ended can always take its next step.
C10_RunNeverBlocksForEver == prog = "app" => (pc = "done" \/ ENABLED Next)

\* C12: with BASE_URL or API_KEY missing, no control-plane request (probe,
\* list, trigger, await) is ever issued, and once the configuration check has
\* run the process is over with exit status 1.
C12_ConfigErrorBeforeNetwork ==
    (~Truthy(BASE_URL) \/ ~Truthy(API_KEY)) =>
        /\ calls = << >>
        /\ api_client = "none"
        /\ pc # "config" =>
               pc = "done" /\ terminal = "ConfigError" /\ exit_code = 1

C12_Witness ==
    /\ Truthy(BASE_URL) /\ ~Truthy(API_KEY)
    /\ pc = "done"
    /\ exit_code = 1
    /\ calls = << >>

\* a run with a valid configuration that ended without an unhandled fault
EndedWithoutFault ==
    /\ Truthy(BASE_URL) /\ Truthy(API_KEY)
    /\ pc = "done"
    /\ terminal # "Crashed"

\* C13 (as claimed): with a valid configuration and no unhandled fault the
\* exit status is zero whatever the outcome, list failure included.
C13_ExitZeroWhateverOutcome == EndedWithoutFault => exit_code = 0

\* C13 (amended): src/app.py exits zero whatever the outcome; src/app/main.py
\* exits zero too, except after a failed list call, where it exits 1.
C13_ExitZeroExceptMainListFailure ==
    EndedWithoutFault =>
        exit_code = IF prog = "main" /\ terminal = "ListFailed" THEN 1 ELSE 0

C13_Witness ==
    /\ prog = "app"
    /\ EndedWithoutFault
    /\ terminal = "Finish"
    /\ update_count = 0
    /\ \E j \in Candidates : JobFailed(j)
    /\ exit_code = 0

\* the first major.minor number of a version string, times 10^(fraction
\* digits), against 25.04 on the same scale
VersionMeetsThreshold(v) ==
    LET m == re_search(v)[1]
        n == Len(m.frac)
    IN  (DecVal(m.int) * Pow10(n) + DecVal(m.frac)) * 100 >= 2504 * Pow10(n)

\* C14: without the override and with a successful probe carrying a
\* major.minor number, the Detector returns the session dialect exactly when
\* that number is at least 25.04; 24.10 gives REST, 25.04 gives SESSION.
C14_ThresholdDecidesDialect ==
    (~FORCE_WEBSOCKET /\ pc # "detect" /\ ParsableProbe(probe)) =>
        /\ api_type = "websocket" <=> VersionMeetsThreshold(probe.body.version)
        /\ api_type = "rest" <=> ~VersionMeetsThreshold(probe.body.version)
        /\ probe.body.version = <<"2", "4", ".", "1", "0">> => api_type = "rest"
        /\ probe.body.version = <<"2", "5", ".", "0", "4">> => api_type = "websocket"

C14_Witness ==
    /\ ~FORCE_WEBSOCKET
    /\ pc = "list"
    /\ ParsableProbe(probe)
    /\ probe.body.version = <<"2", "5", ".", "0", "4">>
    /\ api_type = "websocket"

---------------------------------------------------------------------------
(* The session client *)

Returns == { returns[k] : k \in DOMAIN returns }

MethodFrames == { k \in DOMAIN sent : sent[k].msg = "method" }

\* a call has been made or is under way
CallNeeded == returns # << >> \/ cur # NoCall

\* C11: with the session client, at most one session connection is open at
\* any moment, none is opened before the first call needs it, and none
\* remains open once the client has been released at the end of the run.
C11_SingleSessionConnection ==
    /\ Cardinality(OpenSocks) <= 1
    /\ ~CallNeeded => socks = << >>
    /\ ws_pc = "disconnected" => OpenSocks = {}

\* C15: a call returns a value only from a frame whose msg is "result" and
\* whose id is the outstanding call's; every frame it discarded is another
\* frame, and discarding does not end the call.
C15_OnlyMatchingResultReturned ==
    /\ \A r \in Returns :
          /\ ~r.val.none => r.frame.kind = "object"
          /\ r.frame.kind = "object" =>
                /\ r.frame.msg = "result"
                /\ r.frame.id = StrId(r.id)
                /\ ~r.val.none => r.val.val = r.frame.result
    /\ \A k \in DOMAIN cur.discarded :
          /\ ws_pc = "recv"
          /\ cur.discarded[k].msg # "result" \/ cur.discarded[k].id # StrId(cur.id)

\* the second call discards a frame and then returns its own result, after
\* the first call timed out
C15_Witness ==
    /\ Len(returns) = 2
    /\ returns[1].cause = "timeout"
    /\ returns[2].skipped >= 1
    /\ returns[2].id = 2
    /\ ~returns[2].val.none
    /\ returns[2].frame.id = StrId(2)

\* C16: the ids of successive method frames of one client are strictly
\* increasing, whatever happened to the calls in between and across a
\* disconnect followed by a reconnect.
C16_CallIdsStrictlyIncrease ==
    \A i, j \in MethodFrames :
        i < j => /\ sent[i].id.t = "str"
                 /\ sent[j].id.t = "str"
                 /\ DecVal(sent[i].id.v) < DecVal(sent[j].id.v)

\* two method frames on two connections, the first call having failed
C16_Witness ==
    /\ \E i, j \in MethodFrames : i < j /\ sent[i].sock # sent[j].sock
    /\ Len(returns) >= 1
    /\ returns[1].cause \in {"fault", "timeout"}
    /\ ~socks[1].open

\* the connect frame went out on socket w before position k of the send log
HandshakeSentBefore(w, k) ==
    \E h \in 1..(k - 1) : sent[h].sock = w /\ sent[h].msg = "connect"

\* the server's reply on socket w is a "connected" acknowledgment with a
\* session token
Acknowledged(w) ==
    /\ socks[w].ack.kind = "object"
    /\ socks[w].ack.msg = "connected"
    /\ socks[w].ack.session # None

\* C17: a method frame is sent on a connection only after the connect frame
\* was sent on it and the server acknowledged with "connected" and a session
\* token; after any other reply the client is not connected and the call
\* fails without sending its method frame.
C17_HandshakeBeforeMethod ==
    /\ \A k \in MethodFrames :
          HandshakeSentBefore(sent[k].sock, k) /\ Acknowledged(sent[k].sock)
    /\ connected => ws # 0 /\ Acknowledged(ws)

LoginMethods == {"auth.login", "auth.login_with_api_key"}

\* the first method frame sent on socket w
FirstMethodFrame(w) ==
    CHOOSE k \in MethodFrames :
        sent[k].sock = w /\ \A h \in MethodFrames : sent[h].sock = w => k <= h

\* C18: on every session connection the first method frame after the
\* handshake is a login call, and no other method frame goes out on it
\* unless that login returned true.
C18_LoginBeforeMethods ==
    \A k \in MethodFrames :
        LET first == FirstMethodFrame(sent[k].sock)
        IN  /\ sent[first].method \in LoginMethods
            /\ k # first =>
                  \E r \in Returns : /\ r.id = DecVal(sent[first].id.v)
                                     /\ r.val = Ret("true")

\* C19: a call that fails on a transport fault leaves its connection closed
\* and the client not connected, is reported only after one retry on a new
\* connection, and every method frame sent afterwards goes out on a fresh
\* connection, after that connection's handshake and login.
C19_FaultTearsDownAndRetries ==
    \A n \in DOMAIN returns :
        returns[n].cause = "fault" =>
            /\ ~returns[n].open
            /\ ~returns[n].connected
            /\ returns[n].opened > returns[n].sock
            /\ \A k \in MethodFrames :
                  DecVal(sent[k].id.v) > returns[n].id =>
                      /\ sent[k].sock # returns[n].sock
                      /\ HandshakeSentBefore(sent[k].sock, k)
                      /\ sent[FirstMethodFrame(sent[k].sock)].method \in LoginMethods

\* C20: a matching result frame that carries an error makes the call fail:
\* the frame's result is not returned, the caller receives the error
\* payload, and the client stays connected on the same open connection.
C20_ErrorFrameFailsTheCall ==
    \A n \in DOMAIN returns :
        (returns[n].frame.kind = "object" /\ returns[n].frame.error # "") =>
            /\ returns[n].val # Ret(returns[n].frame.result)
            /\ returns[n].val.val = returns[n].frame.error
            /\ returns[n].connected
            /\ returns[n].open
            /\ returns[n].opened = returns[n].sock

---------------------------------------------------------------------------
(* Sequencing of the upgrade loop *)

LoopCalls == CallsOf("trigger") \cup CallsOf("await")

\* jobs triggered whose awaitJob has not returned
Outstanding ==
    { k \in CallsOf("trigger") :
        /\ calls[k].ret = "handle"
        /\ ~\E h \in AwaitCalls(calls[k].cand) : h > k /\ calls[h].ret # "pending" }

\* before call k, candidate j was dealt with: skipped, or its trigger failed,
\* or its awaitJob returned
DealtWithBefore(j, k) ==
    \/ ~Resolvable(j) /\ TriggerCalls(j) = {}
    \/ \E h \in TriggerCalls(j) : h < k /\ calls[h].ret = "None"
    \/ \E h \in AwaitCalls(j) : h < k /\ calls[h].ret \in {"success", "None"}

\* C21: candidates are processed one at a time in list order: a trigger is
\* issued only when every earlier call of the loop has returned and every
\* earlier candidate was skipped, failed to trigger or was awaited; no
\* candidate is triggered twice; at most one job is outstanding; awaitJob is
\* called only right after the successful trigger of the same candidate, with
\* the handle that trigger returned.
C21_OneCandidateAtATime ==
    /\ \A k \in CallsOf("trigger") :
          /\ \A h \in LoopCalls :
                h < k => calls[h].ret # "pending" /\ calls[h].cand < calls[k].cand
          /\ \A j \in 1..(calls[k].cand - 1) : DealtWithBefore(j, k)
    /\ \A k \in CallsOf("await") :
          /\ k - 1 \in TriggerCalls(calls[k].cand)
          /\ calls[k - 1].ret = "handle"
          /\ calls[k].job = calls[k - 1].job
    /\ Cardinality(Outstanding) <= 1

\* two candidates, each triggered and awaited in turn; the first job failed
C21_Witness ==
    /\ pc = "done"
    /\ Len(releases_to_upgrade) = 2
    /\ Cardinality(CallsOf("trigger")) = 2
    /\ Cardinality(CallsOf("await")) = 2
    /\ JobFailed(1)
    /\ JobSucceeded(2)
    /\ Outstanding = {}

=============================================================================
